---- MODULE Spec2Model ----
(***************************************************************************)
(* Model of drone-dockerhub-ecr, docker.go: Plugin.Exec and the command    *)
(* builders it uses.  One behaviour is one call of Exec on one Plugin      *)
(* configuration.  Every external process Exec starts, every line it       *)
(* prints and every pause it makes is appended to the history `log`, so    *)
(* that ordering properties of a run are state predicates over the log.    *)
(***************************************************************************)
EXTENDS Integers, Sequences, FiniteSets, TLC

VARIABLES
    p,        \* the Plugin value Exec was called on (never assigned by Exec)
    pc,       \* position of Exec in its body
    i,        \* loop counter of the readiness poll
    cmds,     \* the batch ([]*exec.Cmd) once built
    idx,      \* index (1-based) of the batch command the range loop is at
    log,      \* history of external effects, in order
    ret,      \* the error value Exec returned (Nil until/unless it returns one)
    daemon    \* number of calls of p.startDaemon() made so far

vars == <<p, pc, i, cmds, idx, log, ret, daemon>>

----------------------------------------------------------------------------
(* Bounds of the model.                                                    *)

MaxTags == 2
MaxDNS == 2

TagNames == {"v1", "v2"}
Registries == {"", "reg.example"}
ExitCodes == {0, 1}

SeqsUpTo(S, n) == UNION {[1..k -> S] : k \in 0..n}

----------------------------------------------------------------------------
(* Program constants.                                                      *)

dockerExe == "docker"
dockerdExe == "dockerd"
PollAttempts == 15
SleepSeconds == 1

----------------------------------------------------------------------------
(* exec.Cmd values and error values.                                       *)

\* exec.Command(name, arg...): Args holds the program name first.
Command(args) == [args |-> args, stdin |-> ""]

Nil == [kind |-> "nil"]
ExitError(args, code) == [kind |-> "ExitError", args |-> args, code |-> code]

\* cmd.Run(): nil on exit status 0, an error otherwise.
RunResult(cmd, code) == IF code = 0 THEN Nil ELSE ExitError(cmd.args, code)

\* fmt.Errorf("Error authenticating: %s", err)
AuthError(err) == [kind |-> "Errorf", msg |-> "Error authenticating: ", err |-> err]

----------------------------------------------------------------------------
(* Command builders.                                                       *)

commandLoginEmail(login) ==
    [args |-> <<dockerExe, "login", "-u", login.Username, "--password-stdin",
                "-e", login.Email, login.Registry>>,
     stdin |-> login.Password]

MutCommandLoginPasswordArg(login) ==
    [args |-> <<dockerExe, "login", "-u", login.Username,
                "-p", login.Password, login.Registry>>,
     stdin |-> ""]

commandLogin(login) ==
    IF login.Email # ""
    THEN commandLoginEmail(login)
    ELSE [args |-> <<dockerExe, "login", "-u", login.Username,
                     "--password-stdin", login.Registry>>,
          stdin |-> login.Password]

MutIsCommandPullNever(args) == FALSE

\* Go indexes args from 0, TLA+ from 1: Go's args[1] is args[2] here.
isCommandPull(args) == Len(args) > 2 /\ args[2] = "pull"

commandPull(pull) == Command(<<dockerExe, "pull", pull.Repo \o "@" \o pull.Sha>>)

commandVersion == Command(<<dockerExe, "version">>)

commandInfo == Command(<<dockerExe, "info">>)

commandTag(pull, tag, registry) ==
    LET source == pull.Repo \o "@" \o pull.Sha
        target == registry \o "/" \o pull.Repo \o ":" \o tag
    IN  Command(<<dockerExe, "tag", source, target>>)

MutCommandPushBareWhenNoRegistry(pull, tag, registry) ==
    LET target == IF registry = ""
                  THEN pull.Repo \o ":" \o tag
                  ELSE registry \o "/" \o pull.Repo \o ":" \o tag
    IN  Command(<<dockerExe, "push", target>>)

commandPush(pull, tag, registry) ==
    LET target == registry \o "/" \o pull.Repo \o ":" \o tag
    IN  Command(<<dockerExe, "push", target>>)

RECURSIVE Flagged(_, _)
\* for _, v := range values { args = append(args, flag, v) }
Flagged(flag, values) ==
    IF values = <<>> THEN <<>>
    ELSE <<flag, Head(values)>> \o Flagged(flag, Tail(values))

MutInsecureArgsNoRegistryGuard(d) ==
    IF d.Insecure THEN <<"--insecure-registry", d.Registry>> ELSE <<>>

\* if daemon.Insecure && daemon.Registry != "" { --insecure-registry REGISTRY }
InsecureArgs(d) ==
    IF d.Insecure /\ d.Registry # ""
    THEN <<"--insecure-registry", d.Registry>>
    ELSE <<>>

commandDaemon(d) ==
    LET args ==
            <<"--data-root", d.StoragePath>>
            \o (IF d.StorageDriver # "" THEN <<"-s", d.StorageDriver>> ELSE <<>>)
            \o InsecureArgs(d)
            \o (IF d.IPv6 THEN <<"--ipv6">> ELSE <<>>)
            \o (IF d.Mirror # "" THEN <<"--registry-mirror", d.Mirror>> ELSE <<>>)
            \o (IF d.Bip # "" THEN <<"--bip", d.Bip>> ELSE <<>>)
            \o Flagged("--dns", d.DNS)
            \o Flagged("--dns-search", d.DNSSearch)
            \o (IF d.MTU # "" THEN <<"--mtu", d.MTU>> ELSE <<>>)
            \o (IF d.Experimental THEN <<"--experimental">> ELSE <<>>)
    IN  Command(<<dockerdExe>> \o args)

commandPrune == Command(<<dockerExe, "system", "prune", "-f">>)

commandRmi(pull) ==
    LET repository == pull.Repo \o "@" \o pull.Sha
    IN  Command(<<dockerExe, "rmi", repository>>)

RECURSIVE Join(_, _)
\* strings.Join(elems, sep)
Join(elems, sep) ==
    IF Len(elems) = 0 THEN ""
    ELSE IF Len(elems) = 1 THEN elems[1]
    ELSE elems[1] \o sep \o Join(Tail(elems), sep)

MutTraceWithoutProgram(cmd) == "+ " \o Join(Tail(cmd.args), " ")

\* trace(cmd): the line written to stdout (without the newline).
trace(cmd) == "+ " \o Join(cmd.args, " ")

----------------------------------------------------------------------------
(* The batch Exec builds (lines 103-120).                                  *)

RECURSIVE MutTagCmdsPushFirst(_, _)
MutTagCmdsPushFirst(q, tags) ==
    IF tags = <<>> THEN <<>>
    ELSE (IF q.Dryrun = FALSE
          THEN <<commandPush(q.Pull, Head(tags), q.Daemon.Registry)>>
          ELSE <<>>)
         \o <<commandTag(q.Pull, Head(tags), q.Daemon.Registry)>>
         \o MutTagCmdsPushFirst(q, Tail(tags))

RECURSIVE MutTagCmdsAlwaysPush(_, _)
MutTagCmdsAlwaysPush(q, tags) ==
    IF tags = <<>> THEN <<>>
    ELSE <<commandTag(q.Pull, Head(tags), q.Daemon.Registry),
           commandPush(q.Pull, Head(tags), q.Daemon.Registry)>>
         \o MutTagCmdsAlwaysPush(q, Tail(tags))

RECURSIVE TagCmds(_, _)
\* for _, tag := range p.Tags { tag; if !Dryrun { push } }
TagCmds(q, tags) ==
    IF tags = <<>> THEN <<>>
    ELSE <<commandTag(q.Pull, Head(tags), q.Daemon.Registry)>>
         \o (IF q.Dryrun = FALSE
             THEN <<commandPush(q.Pull, Head(tags), q.Daemon.Registry)>>
             ELSE <<>>)
         \o TagCmds(q, Tail(tags))

MutCleanupCmdsAlways(q) == <<commandRmi(q.Pull), commandPrune>>

\* if p.Cleanup { rmi; prune }
CleanupCmds(q) ==
    IF q.Cleanup THEN <<commandRmi(q.Pull), commandPrune>> ELSE <<>>

Batch(q) ==
    <<commandVersion, commandInfo, commandPull(q.Pull)>>
        \o TagCmds(q, q.Tags)
        \o CleanupCmds(q)

----------------------------------------------------------------------------
(* History events.                                                         *)

EvDaemon == [ev |-> "startDaemon"]
EvStart(site, cmd) == [ev |-> "start", site |-> site, cmd |-> cmd]
EvExit(site, cmd, code) == [ev |-> "exit", site |-> site, cmd |-> cmd, code |-> code]
EvSleep(secs) == [ev |-> "sleep", secs |-> secs]
EvTrace(line) == [ev |-> "trace", line |-> line]
EvPrint(line) == [ev |-> "print", line |-> line]

----------------------------------------------------------------------------
(* Initial state: Exec is called on some Plugin value.                     *)

\* The Login values a run is started with: every combination of password
\* present/absent with email present/absent, over both registries.
Logins ==
    {[Registry |-> "", Username |-> "AWS", Password |-> "", Email |-> ""],
     [Registry |-> "reg.example", Username |-> "AWS", Password |-> "",
      Email |-> "a@b.c"],
     [Registry |-> "reg.example", Username |-> "AWS", Password |-> "s3cret",
      Email |-> ""],
     [Registry |-> "", Username |-> "AWS", Password |-> "s3cret",
      Email |-> "a@b.c"]}

\* Login.Registry and Daemon.Registry both name the registry the run targets.
Plugins ==
    {q \in [Login  : Logins,
            Pull   : [Repo : {"acct/img"}, Sha : {"sha256:abc"}],
            Daemon : [Registry : Registries, Disabled : BOOLEAN],
            Dryrun : BOOLEAN,
            Cleanup : BOOLEAN,
            Tags   : SeqsUpTo(TagNames, MaxTags)] :
        q.Login.Registry = q.Daemon.Registry}

Init ==
    /\ p \in Plugins
    /\ pc = "start"
    /\ i = 0
    /\ cmds = <<>>
    /\ idx = 0
    /\ log = <<>>
    /\ ret = Nil
    /\ daemon = 0

----------------------------------------------------------------------------
(* cmd.Run() starts the process and waits for it: both events enter the    *)
(* history in the one step that makes the call.                            *)

Ran(site, cmd, code) == <<EvStart(site, cmd), EvExit(site, cmd, code)>>

----------------------------------------------------------------------------
(* Exec, lines 76-79: start the daemon unless it is disabled.              *)
(* p.startDaemon() returns at once: Exec neither waits for the daemon      *)
(* process nor reads its exit status.                                      *)

MutStartDaemonIgnoreDisabled ==
    /\ pc = "start"
    /\ log' = Append(log, EvDaemon)
    /\ daemon' = daemon + 1
    /\ pc' = "poll"
    /\ UNCHANGED <<p, i, cmds, idx, ret>>

StartDaemon ==
    /\ pc = "start"
    /\ IF ~p.Daemon.Disabled
       THEN /\ log' = Append(log, EvDaemon)
            /\ daemon' = daemon + 1
       ELSE UNCHANGED <<log, daemon>>
    /\ pc' = "poll"
    /\ UNCHANGED <<p, i, cmds, idx, ret>>

----------------------------------------------------------------------------
(* Exec, lines 83-90: the readiness poll.                                  *)

MutPollProbeAbort(code) ==
    /\ pc = "poll"
    /\ i < PollAttempts
    /\ log' = log \o Ran("poll", commandInfo, code)
    /\ IF RunResult(commandInfo, code) = Nil
       THEN pc' = "login" /\ ret' = ret
       ELSE IF i + 1 < PollAttempts
            THEN pc' = "sleep" /\ ret' = ret
            ELSE pc' = "done" /\ ret' = RunResult(commandInfo, code)
    /\ UNCHANGED <<p, i, cmds, idx, daemon>>

MutPollProbeNoBreak(code) ==
    /\ pc = "poll"
    /\ i < PollAttempts
    /\ log' = log \o Ran("poll", commandInfo, code)
    /\ pc' = "sleep"
    /\ UNCHANGED <<p, i, cmds, idx, ret, daemon>>

\* for i := 0; i < 15; i++ { cmd := commandInfo(); err := cmd.Run();
\*                           if err == nil { break } ...
PollProbe(code) ==
    /\ pc = "poll"
    /\ i < PollAttempts
    /\ log' = log \o Ran("poll", commandInfo, code)
    /\ pc' = IF RunResult(commandInfo, code) = Nil THEN "login" ELSE "sleep"
    /\ UNCHANGED <<p, i, cmds, idx, ret, daemon>>

MutPollSleepNoIncrement ==
    /\ pc = "sleep"
    /\ log' = Append(log, EvSleep(SleepSeconds))
    /\ pc' = "poll"
    /\ UNCHANGED <<p, i, cmds, idx, ret, daemon>>

\* ... time.Sleep(time.Second * 1) } and the loop's i++
PollSleep ==
    /\ pc = "sleep"
    /\ log' = Append(log, EvSleep(SleepSeconds))
    /\ i' = i + 1
    /\ pc' = "poll"
    /\ UNCHANGED <<p, cmds, idx, ret, daemon>>

\* the loop condition i < 15 fails: fall through to the login step
PollExhausted ==
    /\ pc = "poll"
    /\ ~(i < PollAttempts)
    /\ pc' = "login"
    /\ UNCHANGED <<p, i, cmds, idx, log, ret, daemon>>

----------------------------------------------------------------------------
(* Exec, lines 93-101: login.                                              *)

MutLoginAlways(code) ==
    /\ pc = "login"
    /\ LET cmd == commandLogin(p.Login)
           err == RunResult(cmd, code)
       IN  /\ log' = log \o Ran("login", cmd, code)
           /\ IF err # Nil
              THEN ret' = AuthError(err) /\ pc' = "done"
              ELSE ret' = ret /\ pc' = "build"
    /\ UNCHANGED <<p, i, cmds, idx, daemon>>

MutLoginIgnoreError(code) ==
    /\ pc = "login"
    /\ IF p.Login.Password # ""
       THEN log' = log \o Ran("login", commandLogin(p.Login), code)
       ELSE log' = Append(log,
                EvPrint("Registry credentials not provided. Guest mode enabled."))
    /\ pc' = "build"
    /\ UNCHANGED <<p, i, cmds, idx, ret, daemon>>

\* if p.Login.Password != "" { cmd := commandLogin(p.Login); err := cmd.Run();
\*     if err != nil { return fmt.Errorf(...) } } else { fmt.Println(...) }
Login(code) ==
    /\ pc = "login"
    /\ IF p.Login.Password # ""
       THEN LET cmd == commandLogin(p.Login)
                err == RunResult(cmd, code)
            IN  /\ log' = log \o Ran("login", cmd, code)
                /\ IF err # Nil
                   THEN ret' = AuthError(err) /\ pc' = "done"
                   ELSE ret' = ret /\ pc' = "build"
       ELSE /\ log' = Append(log,
                EvPrint("Registry credentials not provided. Guest mode enabled."))
            /\ pc' = "build"
            /\ ret' = ret
    /\ UNCHANGED <<p, i, cmds, idx, daemon>>

----------------------------------------------------------------------------
(* Exec, lines 103-137: build the batch and run it.                        *)

BuildBatch ==
    /\ pc = "build"
    /\ cmds' = Batch(p)
    /\ idx' = 1
    /\ pc' = "batch"
    /\ UNCHANGED <<p, i, log, ret, daemon>>

MutBatchStepIgnoreError(code) ==
    /\ pc = "batch"
    /\ idx <= Len(cmds)
    /\ log' = log \o <<EvTrace(trace(cmds[idx]))>> \o Ran("batch", cmds[idx], code)
    /\ idx' = idx + 1
    /\ UNCHANGED <<p, pc, i, cmds, ret, daemon>>

MutBatchStepWrapError(code) ==
    /\ pc = "batch"
    /\ idx <= Len(cmds)
    /\ LET cmd == cmds[idx]
           err == RunResult(cmd, code)
           ran == log \o <<EvTrace(trace(cmd))>> \o Ran("batch", cmd, code)
       IN  IF err # Nil /\ isCommandPull(cmd.args)
           THEN /\ log' = Append(ran,
                      EvPrint("Could not pull cache-from image " \o cmd.args[3]
                              \o ". Ignoring..."))
                /\ idx' = idx + 1
                /\ UNCHANGED <<pc, ret>>
           ELSE IF err # Nil
           THEN /\ log' = ran
                /\ ret' = AuthError(err)
                /\ pc' = "done"
                /\ idx' = idx
           ELSE /\ log' = ran
                /\ idx' = idx + 1
                /\ UNCHANGED <<pc, ret>>
    /\ UNCHANGED <<p, i, cmds, daemon>>

MutBatchStepCleanupOnError(code) ==
    /\ pc = "batch"
    /\ idx <= Len(cmds)
    /\ LET cmd == cmds[idx]
           err == RunResult(cmd, code)
           ran == log \o <<EvTrace(trace(cmd))>> \o Ran("batch", cmd, code)
       IN  IF err # Nil /\ isCommandPull(cmd.args)
           THEN /\ log' = Append(ran,
                      EvPrint("Could not pull cache-from image " \o cmd.args[3]
                              \o ". Ignoring..."))
                /\ idx' = idx + 1
                /\ UNCHANGED <<pc, ret>>
           ELSE IF err # Nil
           THEN /\ log' = ran \o Ran("batch", commandRmi(p.Pull), 0)
                             \o Ran("batch", commandPrune, 0)
                /\ ret' = err
                /\ pc' = "done"
                /\ idx' = idx
           ELSE /\ log' = ran
                /\ idx' = idx + 1
                /\ UNCHANGED <<pc, ret>>
    /\ UNCHANGED <<p, i, cmds, daemon>>

\* One iteration of: for _, cmd := range cmds { trace(cmd); err := cmd.Run();
\*     if err != nil && isCommandPull(cmd.Args) { fmt.Printf(...) }
\*     else if err != nil { return err } }
BatchStep(code) ==
    /\ pc = "batch"
    /\ idx <= Len(cmds)
    /\ LET cmd == cmds[idx]
           err == RunResult(cmd, code)
           ran == log \o <<EvTrace(trace(cmd))>> \o Ran("batch", cmd, code)
       IN  IF err # Nil /\ isCommandPull(cmd.args)
           THEN /\ log' = Append(ran,
                      EvPrint("Could not pull cache-from image " \o cmd.args[3]
                              \o ". Ignoring..."))
                /\ idx' = idx + 1
                /\ UNCHANGED <<pc, ret>>
           ELSE IF err # Nil
           THEN /\ log' = ran
                /\ ret' = err
                /\ pc' = "done"
                /\ idx' = idx
           ELSE /\ log' = ran
                /\ idx' = idx + 1
                /\ UNCHANGED <<pc, ret>>
    /\ UNCHANGED <<p, i, cmds, daemon>>

MutBatchReturnEarly ==
    /\ pc = "batch"
    /\ idx >= Len(cmds)
    /\ ret' = Nil
    /\ pc' = "done"
    /\ UNCHANGED <<p, i, cmds, idx, log, daemon>>

\* the range loop is exhausted: return nil
BatchReturn ==
    /\ pc = "batch"
    /\ idx > Len(cmds)
    /\ ret' = Nil
    /\ pc' = "done"
    /\ UNCHANGED <<p, i, cmds, idx, log, daemon>>

----------------------------------------------------------------------------

Next ==
    \/ StartDaemon
    \/ \E code \in ExitCodes : PollProbe(code)
    \/ PollSleep
    \/ PollExhausted
    \/ \E code \in ExitCodes : Login(code)
    \/ BuildBatch
    \/ \E code \in ExitCodes : BatchStep(code)
    \/ BatchReturn

Spec == Init /\ [][Next]_vars

\* Exec is one sequential thread and each Run returns once its process has
\* exited: whenever Exec has a next step, it takes it.
FairSpec == Spec /\ WF_vars(Next)

----------------------------------------------------------------------------
(* The command builders on their own: a builder is applied to one input    *)
(* and its result kept in cmds.                                            *)

Daemons ==
    [Registry : Registries, Mirror : {"", "mirror.example"},
     Insecure : BOOLEAN, StorageDriver : {"", "overlay2"},
     StoragePath : {"", "/var/lib/docker"}, Disabled : {FALSE},
     Debug : {FALSE}, Bip : {"", "10.0.0.1/16"},
     DNS : SeqsUpTo({"8.8.8.8", "1.1.1.1"}, MaxDNS),
     DNSSearch : SeqsUpTo({"corp.example"}, MaxDNS),
     MTU : {"", "1400"}, IPv6 : BOOLEAN, Experimental : BOOLEAN]

LoginValues ==
    [Registry : Registries, Username : {"", "AWS"},
     Password : {"", "s3cret", "hunter2"}, Email : {"", "a@b.c"}]

TagInputs ==
    [Pull : [Repo : {"acct/img", "img"}, Sha : {"sha256:abc"}],
     Tag : TagNames \cup {"", "latest"},
     Registry : Registries]

BuilderInputs ==
    {[kind |-> "daemon", Daemon |-> d] : d \in Daemons}
        \cup {[kind |-> "login", Login |-> l] : l \in LoginValues}
        \cup {[kind |-> "tagpush", In |-> t] : t \in TagInputs}

InitCmd ==
    /\ p \in BuilderInputs
    /\ pc = "input"
    /\ i = 0
    /\ cmds = <<>>
    /\ idx = 0
    /\ log = <<>>
    /\ ret = Nil
    /\ daemon = 0

BuildDaemon ==
    /\ pc = "input"
    /\ p.kind = "daemon"
    /\ cmds' = <<commandDaemon(p.Daemon)>>
    /\ pc' = "built"
    /\ UNCHANGED <<p, i, idx, log, ret, daemon>>

BuildLogin ==
    /\ pc = "input"
    /\ p.kind = "login"
    /\ cmds' = <<commandLogin(p.Login)>>
    /\ pc' = "built"
    /\ UNCHANGED <<p, i, idx, log, ret, daemon>>

BuildTagPush ==
    /\ pc = "input"
    /\ p.kind = "tagpush"
    /\ cmds' = <<commandTag(p.In.Pull, p.In.Tag, p.In.Registry),
                 commandPush(p.In.Pull, p.In.Tag, p.In.Registry)>>
    /\ pc' = "built"
    /\ UNCHANGED <<p, i, idx, log, ret, daemon>>

NextCmd ==
    \/ BuildDaemon
    \/ BuildLogin
    \/ BuildTagPush

SpecCmd == InitCmd /\ [][NextCmd]_vars

----------------------------------------------------------------------------
(* Reading the history.                                                    *)

IsStart(e, site) == e.ev = "start" /\ e.site = site
IsExit(e, site) == e.ev = "exit" /\ e.site = site
IsBatchStart(e) == IsStart(e, "batch")
IsPollStart(e) == IsStart(e, "poll")
IsLoginStart(e) == IsStart(e, "login")

\* positions of the history at which a process was started from `site`
StartsAt(site) == {k \in 1..Len(log) : IsStart(log[k], site)}

\* the commands the batch loop has run so far, in order
BatchRan ==
    LET evs == SelectSeq(log, IsBatchStart)
    IN  [k \in 1..Len(evs) |-> evs[k].cmd]

\* the docker subcommand of a command (Go's cmd.Args[1])
Subcommand(cmd) == cmd.args[2]

IsPrefix(s, t) == Len(s) <= Len(t) /\ \A k \in 1..Len(s) : s[k] = t[k]

Returned == pc = "done"
Succeeded == pc = "done" /\ ret = Nil
Failed == pc = "done" /\ ret # Nil

\* what the spec calls repo@sha
Image == p.Pull.Repo \o "@" \o p.Pull.Sha

----------------------------------------------------------------------------
(* C1.  The order of the batch, stated by position.                        *)

PerTag == IF p.Dryrun THEN 1 ELSE 2
ExpectedLen == 3 + Len(p.Tags) * PerTag + (IF p.Cleanup THEN 2 ELSE 0)

\* the command the spec puts at position k of the batch
ExpectedAt(k) ==
    IF k = 1 THEN commandVersion
    ELSE IF k = 2 THEN commandInfo
    ELSE IF k = 3 THEN commandPull(p.Pull)
    ELSE IF k <= 3 + Len(p.Tags) * PerTag
    THEN LET t == p.Tags[((k - 4) \div PerTag) + 1]
         IN  IF (k - 4) % PerTag = 0
             THEN commandTag(p.Pull, t, p.Daemon.Registry)
             ELSE commandPush(p.Pull, t, p.Daemon.Registry)
    ELSE IF k = ExpectedLen - 1 THEN commandRmi(p.Pull)
    ELSE commandPrune

\* every process started by a blocking Run has exited before the next
\* history entry is made
OneAtATime ==
    \A k \in 1..Len(log) :
        log[k].ev = "start" =>
            /\ k < Len(log)
            /\ log[k + 1].ev = "exit"
            /\ log[k + 1].site = log[k].site
            /\ log[k + 1].cmd = log[k].cmd

\* C1: the commands of the batch (the ones run after the login step) are, in order and one at a
\* time, version, info, pull repo@sha, then per configured tag the tag
\* command followed (unless Dryrun) by the push of the same tag, then (when
\* Cleanup) remove-image and prune; a run that ran the whole batch ran
\* exactly that list.
C1_BatchOrder ==
    LET ran == BatchRan
    IN  /\ Len(ran) <= ExpectedLen
        /\ \A k \in 1..Len(ran) : ran[k] = ExpectedAt(k)
        /\ Succeeded => Len(ran) = ExpectedLen
        /\ OneAtATime

C1_Witness ==
    /\ Succeeded
    /\ Len(p.Tags) = 2 /\ p.Tags[1] # p.Tags[2]
    /\ ~p.Dryrun /\ p.Cleanup
    /\ p.Login.Password # ""
    /\ Len(BatchRan) = 9

----------------------------------------------------------------------------
(* C2.                                                                     *)

\* C2: when the pull of repo@sha exits non-zero the run aborts at once:
\* Exec returns an error and nothing is executed after the pull.
C2_PullFailureAborts ==
    \A k \in 1..Len(log) :
        ( /\ IsExit(log[k], "batch")
          /\ log[k].cmd = commandPull(p.Pull)
          /\ log[k].code # 0 )
        => /\ Failed
           /\ \A j \in (k + 1)..Len(log) : log[j].ev # "start"

----------------------------------------------------------------------------
(* C3.                                                                     *)

NonPullKinds == {"version", "info", "tag", "push", "rmi", "system"}

\* C3: when a batch command other than a pull exits non-zero, Exec returns
\* that command's error as Run gave it, and nothing is traced or executed
\* after it.
C3_NonPullFailureReturnsError ==
    \A k \in 1..Len(log) :
        ( /\ IsExit(log[k], "batch")
          /\ Subcommand(log[k].cmd) \in NonPullKinds
          /\ log[k].code # 0 )
        => /\ Returned
           /\ ret = ExitError(log[k].cmd.args, log[k].code)
           /\ k = Len(log)

C3_Witness ==
    /\ Failed
    /\ ret.kind = "ExitError"
    /\ Subcommand(log[Len(log)].cmd) = "tag"
    /\ Len(BatchRan) < Len(cmds)

----------------------------------------------------------------------------
(* C4.                                                                     *)

\* C4: with a non-empty password the login command is run exactly once,
\* after every probe of the readiness poll and before every batch command;
\* if it exits non-zero Exec returns the authentication error and no batch
\* command is ever run.
C4_LoginOnceAndFatal ==
    p.Login.Password # "" =>
        LET logins == StartsAt("login")
            polls == StartsAt("poll")
            batch == StartsAt("batch")
        IN  /\ Cardinality(logins) <= 1
            /\ pc \in {"build", "batch", "done"} => Cardinality(logins) = 1
            /\ \A k \in logins :
                /\ log[k].cmd = commandLogin(p.Login)
                /\ \A j \in polls : j < k
                /\ \A j \in batch : k < j
                /\ \A j \in 1..Len(log) : log[j].ev = "trace" => k < j
            /\ \A k \in 1..Len(log) :
                (IsExit(log[k], "login") /\ log[k].code # 0) =>
                    /\ Returned
                    /\ ret = AuthError(ExitError(log[k].cmd.args, log[k].code))
                    /\ batch = {}
                    /\ cmds = <<>>

C4_Witness ==
    /\ p.Login.Password # ""
    /\ Failed
    /\ ret.kind = "Errorf"
    /\ i > 0

----------------------------------------------------------------------------
(* C5.                                                                     *)

IsTagCmd(cmd) == Subcommand(cmd) = "tag"
IsPushCmd(cmd) == Subcommand(cmd) = "push"

\* the tag command of each configured tag, in configured order
TagCommands == [k \in 1..Len(p.Tags) |->
                    commandTag(p.Pull, p.Tags[k], p.Daemon.Registry)]

\* C5: under Dryrun no push command is built or executed, while the tag
\* commands executed are the configured tags' tag commands, one each, in
\* configured order (all of them in a run that succeeds).
C5_DryrunNeverPushes ==
    p.Dryrun =>
        LET ran == BatchRan
            tagged == SelectSeq(ran, IsTagCmd)
        IN  /\ \A k \in 1..Len(cmds) : ~IsPushCmd(cmds[k])
            /\ \A k \in 1..Len(ran) : ~IsPushCmd(ran[k])
            /\ IsPrefix(tagged, TagCommands)
            /\ Succeeded => tagged = TagCommands

C5_Witness ==
    /\ p.Dryrun
    /\ Succeeded
    /\ Len(p.Tags) = 2
    /\ Len(SelectSeq(BatchRan, IsTagCmd)) = 2

----------------------------------------------------------------------------
(* C6.                                                                     *)

RmiCommand == Command(<<dockerExe, "rmi", Image>>)
PruneCommand == Command(<<dockerExe, "system", "prune", "-f">>)
IsCleanupCmd(cmd) == Subcommand(cmd) \in {"rmi", "system"}

\* C6: with Cleanup the batch ends with remove-image of repo@sha and then
\* prune, both after every tag and push command; without Cleanup no
\* remove-image and no prune command is built or executed.
C6_CleanupLast ==
    LET ran == BatchRan
        n == Len(cmds)
    IN  /\ (p.Cleanup /\ pc \in {"batch", "done"} /\ n > 0) =>
              /\ n >= 2
              /\ cmds[n - 1] = RmiCommand
              /\ cmds[n] = PruneCommand
              /\ \A k \in 1..(n - 2) : ~IsCleanupCmd(cmds[k])
        /\ (p.Cleanup /\ Succeeded) =>
              /\ Len(ran) >= 2
              /\ ran[Len(ran) - 1] = RmiCommand
              /\ ran[Len(ran)] = PruneCommand
        /\ p.Cleanup =>
              \A k \in 1..Len(ran) : IsCleanupCmd(ran[k]) =>
                  \A j \in 1..Len(ran) :
                      (IsTagCmd(ran[j]) \/ IsPushCmd(ran[j])) => j < k
        /\ ~p.Cleanup =>
              /\ \A k \in 1..Len(ran) : ~IsCleanupCmd(ran[k])
              /\ \A k \in 1..n : ~IsCleanupCmd(cmds[k])

C6_Witness ==
    /\ p.Cleanup
    /\ Succeeded
    /\ Len(p.Tags) >= 1
    /\ ~p.Dryrun
    /\ Subcommand(BatchRan[Len(BatchRan)]) = "system"

----------------------------------------------------------------------------
(* C7.                                                                     *)

GuestNotice == EvPrint("Registry credentials not provided. Guest mode enabled.")

\* C7: with an empty password no login command is ever executed, whatever
\* the other Login fields, and the run goes on to the batch: it never
\* returns the authentication error, and it does not return before the
\* first batch command has run.
C7_NoPasswordNoLogin ==
    p.Login.Password = "" =>
        /\ StartsAt("login") = {}
        /\ ret.kind # "Errorf"
        /\ pc \in {"build", "batch"} => ret = Nil
        /\ Returned => Len(BatchRan) >= 1

C7_Witness ==
    /\ p.Login.Password = ""
    /\ p.Login.Email # ""
    /\ p.Login.Registry # ""
    /\ pc = "batch"
    /\ Len(BatchRan) = 2
    /\ log[Len(log) - 6] = GuestNotice

----------------------------------------------------------------------------
(* C8.                                                                     *)

PollExits == {k \in 1..Len(log) : IsExit(log[k], "poll")}
PollNeverSucceeded == \A k \in PollExits : log[k].code # 0
PollOver == pc \notin {"start", "poll", "sleep"}

----------------------------------------------------------------------------
(* C9.                                                                     *)

\* C9: Exec returns nil only when the batch is exhausted, every command of
\* the batch built for the configuration having been executed; a return
\* before the last batch command has run is an error return.
C9_SuccessOnlyAfterWholeBatch ==
    LET ran == BatchRan
    IN  /\ Succeeded =>
              /\ Len(cmds) >= 3
              /\ Len(cmds) = ExpectedLen
              /\ ran = cmds
              /\ idx = Len(cmds) + 1
        /\ (Returned /\ Len(ran) < ExpectedLen) => ret # Nil

C9_Witness ==
    /\ Succeeded
    /\ Len(p.Tags) = 2
    /\ ~p.Dryrun
    /\ ~p.Cleanup
    /\ Len(BatchRan) = 7

----------------------------------------------------------------------------
(* C10.                                                                    *)

DaemonStarts == {k \in 1..Len(log) : log[k] = EvDaemon}

\* C10: with Daemon.Disabled the daemon start is never issued; otherwise it
\* is issued exactly once, before the first probe of the readiness poll.
C10_DaemonStartOnlyWhenEnabled ==
    LET starts == DaemonStarts
        polls == StartsAt("poll")
    IN  /\ p.Daemon.Disabled => (daemon = 0 /\ starts = {})
        /\ ~p.Daemon.Disabled =>
              /\ daemon <= 1
              /\ Cardinality(starts) = daemon
              /\ pc # "start" => daemon = 1
              /\ polls # {} => starts # {}
        /\ \A k \in polls : \A d \in starts : d < k

C10_Witness ==
    /\ ~p.Daemon.Disabled
    /\ daemon = 1
    /\ Cardinality(StartsAt("poll")) = 3
    /\ pc = "login"

----------------------------------------------------------------------------
(* C11.                                                                    *)

BuiltFrom(kind) == pc = "built" /\ p.kind = kind

\* C11: for every registry (the empty one included), repository and tag,
\* the destination of the tag command and the target of the push command
\* are both registry + "/" + repo + ":" + tag, hence equal to each other;
\* an empty registry leaves the leading "/" in place.
C11_TagPushTarget ==
    BuiltFrom("tagpush") =>
        LET tagCmd == cmds[1]
            pushCmd == cmds[2]
            dest == p.In.Registry \o "/" \o p.In.Pull.Repo \o ":" \o p.In.Tag
        IN  /\ tagCmd.args[4] = dest
            /\ pushCmd.args[3] = dest
            /\ pushCmd.args[3] = tagCmd.args[4]
            /\ p.In.Registry = "" =>
                  pushCmd.args[3] = "/" \o p.In.Pull.Repo \o ":" \o p.In.Tag

C11_Witness ==
    /\ BuiltFrom("tagpush")
    /\ p.In.Registry = ""
    /\ cmds[1].args[4] = "/acct/img:v1"
    /\ cmds[2].args[3] = "/acct/img:v1"

----------------------------------------------------------------------------
(* C12.                                                                    *)

HasArg(cmd, a) == \E k \in 1..Len(cmd.args) : cmd.args[k] = a

\* C12: with or without an email, the argument list of the login command
\* does not carry the password: it is the same list whatever the password
\* is, no argument equals a password that differs from the other Login
\* fields, and the command's standard input is the password.
C12_PasswordOnlyOnStdin ==
    BuiltFrom("login") =>
        LET cmd == cmds[1]
            other == [p.Login EXCEPT !.Password = "correct horse"]
        IN  /\ cmd.stdin = p.Login.Password
            /\ cmd.args = commandLogin(other).args
            /\ p.Login.Password \notin
                    {p.Login.Username, p.Login.Email, p.Login.Registry}
                  => ~HasArg(cmd, p.Login.Password)

C12_Witness ==
    /\ BuiltFrom("login")
    /\ p.Login.Password = "s3cret"
    /\ p.Login.Email # ""
    /\ HasArg(cmds[1], "-e")
    /\ cmds[1].stdin = "s3cret"

----------------------------------------------------------------------------
(* C13.                                                                    *)

\* the arguments that follow each occurrence of flag, in order
ValuesOf(cmd, flag) ==
    LET n == Len(cmd.args)
        at == {k \in 1..(n - 1) : cmd.args[k] = flag}
        pairs == [k \in 1..(n - 1) |-> <<k, cmd.args[k + 1]>>]
        hit(pr) == pr[1] \in at
        sel == SelectSeq(pairs, hit)
    IN  [k \in 1..Len(sel) |-> sel[k][2]]

ValueFlag(cmd, flag, value) ==
    IF value # "" THEN ValuesOf(cmd, flag) = <<value>> ELSE ~HasArg(cmd, flag)

SwitchFlag(cmd, flag, on) == HasArg(cmd, flag) <=> on

\* the flags whose presence follows their own field alone
PlainFlags(cmd, d) ==
    /\ ValueFlag(cmd, "-s", d.StorageDriver)
    /\ ValueFlag(cmd, "--registry-mirror", d.Mirror)
    /\ ValueFlag(cmd, "--bip", d.Bip)
    /\ ValueFlag(cmd, "--mtu", d.MTU)
    /\ SwitchFlag(cmd, "--ipv6", d.IPv6)
    /\ SwitchFlag(cmd, "--experimental", d.Experimental)
    /\ ValuesOf(cmd, "--dns") = d.DNS
    /\ ValuesOf(cmd, "--dns-search") = d.DNSSearch

\* C13 as stated: every flag of the daemon-start invocation, --data-root
\* and --insecure-registry included, is present exactly when its field is
\* set (non-empty, true) and absent otherwise.
C13_EveryFlagIffFieldSet ==
    BuiltFrom("daemon") =>
        LET cmd == cmds[1]
            d == p.Daemon
        IN  /\ PlainFlags(cmd, d)
            /\ HasArg(cmd, "--data-root") <=> d.StoragePath # ""
            /\ HasArg(cmd, "--insecure-registry") <=> d.Insecure

\* C13 (amended): --data-root is always present, followed by the storage
\* path even when that is empty; --insecure-registry is present, followed
\* by the registry, exactly when Insecure is true and the registry is
\* non-empty; every other flag is present exactly when its own field is
\* set, with the field's value(s) after it.
C13_DaemonFlags ==
    BuiltFrom("daemon") =>
        LET cmd == cmds[1]
            d == p.Daemon
        IN  /\ PlainFlags(cmd, d)
            /\ cmd.args[1] = dockerdExe
            /\ cmd.args[2] = "--data-root"
            /\ cmd.args[3] = d.StoragePath
            /\ ValuesOf(cmd, "--data-root") = <<d.StoragePath>>
            /\ IF d.Insecure /\ d.Registry # ""
               THEN ValuesOf(cmd, "--insecure-registry") = <<d.Registry>>
               ELSE ~HasArg(cmd, "--insecure-registry")

C13_Witness ==
    /\ BuiltFrom("daemon")
    /\ p.Daemon.StoragePath = ""
    /\ p.Daemon.Insecure
    /\ p.Daemon.Registry = ""
    /\ Len(p.Daemon.DNS) = 2
    /\ p.Daemon.MTU # ""
    /\ HasArg(cmds[1], "--data-root")
    /\ ~HasArg(cmds[1], "--insecure-registry")

----------------------------------------------------------------------------
(* C14.                                                                    *)

\* the exit events of the batch, in order
BatchExits ==
    LET IsBatchExit(e) == IsExit(e, "batch")
    IN  SelectSeq(log, IsBatchExit)

LooksLikePull(cmd) == Len(cmd.args) >= 3 /\ cmd.args[2] = "pull"

PullNotice(cmd) ==
    EvPrint("Could not pull cache-from image " \o cmd.args[3] \o ". Ignoring...")

\* C14: when a command of the pull shape (more than two arguments,
\* subcommand "pull") exits non-zero, Exec does not return there: it prints
\* the notice, goes on with the next batch command, runs the rest in order
\* and returns nil when the others all exit zero.
C14_PullFailureSwallowed ==
    LET exits == BatchExits
    IN  \A k \in 1..Len(log) :
            ( /\ IsExit(log[k], "batch")
              /\ LooksLikePull(log[k].cmd)
              /\ log[k].code # 0 )
            => /\ Len(log) > k
               /\ log[k + 1] = PullNotice(log[k].cmd)
               /\ ret # ExitError(log[k].cmd.args, log[k].code)
               /\ Len(log) = k + 1 =>
                     /\ idx = 4
                     /\ ret = Nil
                     /\ pc = "batch" \/ (Returned /\ Len(cmds) = 3)
               /\ IsPrefix([j \in 1..Len(exits) |-> exits[j].cmd], cmds)
               /\ ( /\ Returned
                    /\ \A j \in 1..Len(exits) :
                          ~LooksLikePull(exits[j].cmd) => exits[j].code = 0 )
                  => (ret = Nil /\ Len(exits) = Len(cmds))

C14_Witness ==
    /\ Succeeded
    /\ Len(p.Tags) = 2
    /\ ~p.Dryrun
    /\ p.Cleanup
    /\ BatchExits[3].code # 0
    /\ Len(BatchExits) = 9

----------------------------------------------------------------------------
(* C15.                                                                    *)

\* C15: the poll stops at the first successful probe: when the k-th probe
\* is the first to succeed, k probes have been made and no more are made,
\* no pause follows the successful probe, and the next step is the login
\* decision.
C15_PollStopsOnFirstSuccess ==
    LET polls == StartsAt("poll")
        exits == PollExits
    IN  \A e \in exits :
            log[e].code = 0 =>
                /\ \A j \in polls : j < e
                /\ \A j \in exits : j < e => log[j].code # 0
                /\ Cardinality(polls) = i + 1
                /\ \A s \in (e + 1)..Len(log) : log[s].ev # "sleep"
                /\ Len(log) = e => pc = "login"
                /\ Len(log) > e =>
                      \/ IsStart(log[e + 1], "login")
                      \/ log[e + 1] = GuestNotice

C15_Witness ==
    /\ Cardinality(StartsAt("poll")) = 3
    /\ \E e \in PollExits : log[e].code = 0
    /\ pc = "build"

----------------------------------------------------------------------------
(* C16.                                                                    *)

\* "+ " and then the program name and the arguments, one space apart,
\* written out for the argument counts the batch uses
TraceLine(cmd) ==
    LET a == cmd.args
    IN  IF Len(a) = 2 THEN "+ " \o a[1] \o " " \o a[2]
        ELSE IF Len(a) = 3 THEN "+ " \o a[1] \o " " \o a[2] \o " " \o a[3]
        ELSE "+ " \o a[1] \o " " \o a[2] \o " " \o a[3] \o " " \o a[4]

----------------------------------------------------------------------------
(* C17.                                                                    *)

\* the run ended with the login error or with the error of a batch command
\* that comes before the cleanup commands
AbortedBeforeCleanup ==
    /\ Failed
    /\ \/ ret.kind = "Errorf"
       \/ ret.kind = "ExitError" /\ ret.args[2] \notin {"rmi", "system"}

\* C17: a run that ends with the login error or with the error of a batch
\* command before the cleanup commands has executed neither remove-image
\* nor prune, Cleanup or not.
C17_NoCleanupOnAbort ==
    AbortedBeforeCleanup =>
        LET ran == BatchRan
        IN  \A k \in 1..Len(ran) : ~IsCleanupCmd(ran[k])

C17_Witness ==
    /\ AbortedBeforeCleanup
    /\ p.Cleanup
    /\ ret.kind = "ExitError"
    /\ ret.args[2] = "push"
    /\ Len(p.Tags) = 2

----------------------------------------------------------------------------
(* C18.                                                                    *)

\* C18: a push is executed only right after the tag command of the same
\* target, which exited zero; so the pull has been run before any push and
\* no target whose tagging failed is pushed.
C18_PushOnlyAfterItsTag ==
    LET exits == BatchExits
    IN  /\ Len(exits) = Len(BatchRan)
        /\ \A k \in 1..Len(exits) :
              IsPushCmd(exits[k].cmd) =>
                  /\ k > 1
                  /\ IsTagCmd(exits[k - 1].cmd)
                  /\ exits[k - 1].cmd.args[4] = exits[k].cmd.args[3]
                  /\ exits[k - 1].code = 0
                  /\ \E j \in 1..(k - 1) : exits[j].cmd = commandPull(p.Pull)

C18_Witness ==
    /\ Len(BatchExits) = 7
    /\ IsPushCmd(BatchExits[7].cmd)
    /\ BatchExits[7].code = 0
    /\ p.Tags[1] # p.Tags[2]

----------------------------------------------------------------------------
(* C19.                                                                    *)

\* the processes Exec has run and waited for
Invocations == {k \in 1..Len(log) : log[k].ev = "start"}

InvocationBounds ==
    /\ Cardinality(Invocations) <= 15 + 1 + 3 + 2 * Len(p.Tags) + 2
    /\ Cardinality(StartsAt("poll")) <= 15
    /\ Cardinality(StartsAt("login")) <= 1
    /\ IsPrefix(BatchRan, cmds)
    /\ Len(cmds) <= 3 + 2 * Len(p.Tags) + 2

\* C19: with every external command terminating, Exec always returns (nil
\* or an error); on the way it runs at most 15 probes of the poll, 1 login
\* and 3 + 2 per tag + 2 batch commands, and apart from the poll's probe it
\* runs no command position twice.
C19_BoundedRun == []InvocationBounds /\ <>Returned

C19_Witness ==
    /\ Returned
    /\ Len(p.Tags) = 2
    /\ Cardinality(Invocations) = 15 + 1 + 3 + 2 * 2 + 2

====
